---- MODULE Spec2Model ----
(***************************************************************************)
(* The three trajectory classifiers of the SWE-Agent trajectory analysis   *)
(* script: locate_reproduction_code, locate_search and locate_tool_use.    *)
(* Texts are TLA+ strings; Python's str and re operations are operators    *)
(* over them, computed position by position as the library computes them.  *)
(***************************************************************************)
EXTENDS Integers, Sequences, FiniteSets, TLC

\* Longest trajectory (number of steps) the model loads.
MaxSteps == 2

(***************************************************************************)
(* Python str operations                                                   *)
(***************************************************************************)

\* s[i-1] of Python, 1-based here
Char(s, i) == SubSeq(s, i, i)

\* s[pos-1:].startswith(lit)
HasAt(s, pos, lit) ==
    /\ pos >= 1
    /\ pos + Len(lit) - 1 <= Len(s)
    /\ SubSeq(s, pos, pos + Len(lit) - 1) = lit

\* lit in s
Contains(s, lit) == \E i \in 1..(Len(s) - Len(lit) + 1) : HasAt(s, i, lit)

\* s.startswith(lit)
StartsWith(s, lit) == HasAt(s, 1, lit)

\* s.endswith(lit)
EndsWith(s, lit) == HasAt(s, Len(s) - Len(lit) + 1, lit)

UpperLetters == "ABCDEFGHIJKLMNOPQRSTUVWXYZ"
LowerLetters == "abcdefghijklmnopqrstuvwxyz"
Digits == "0123456789"

\* c.lower() of one character
LowerChar(c) ==
    IF \E i \in 1..Len(UpperLetters) : Char(UpperLetters, i) = c
    THEN Char(LowerLetters, CHOOSE i \in 1..Len(UpperLetters) : Char(UpperLetters, i) = c)
    ELSE c

RECURSIVE Lower(_)
\* s.lower()
Lower(s) == IF s = "" THEN "" ELSE LowerChar(Head(s)) \o Lower(Tail(s))

\* the characters str.strip(), str.split() and the pattern \s treat as blank
Whitespace == {" ", "\t", "\n", "\r", "\f"}

IsSpace(c) == c \in Whitespace

\* the characters the pattern \w matches
WordChars ==
    {Char(LowerLetters, i) : i \in 1..Len(LowerLetters)}
        \cup {Char(UpperLetters, i) : i \in 1..Len(UpperLetters)}
        \cup {Char(Digits, i) : i \in 1..Len(Digits)}
        \cup {"_"}

IsWord(c) == c \in WordChars

RECURSIVE LStrip(_)
LStrip(s) == IF s # "" /\ IsSpace(Head(s)) THEN LStrip(Tail(s)) ELSE s

RECURSIVE RStrip(_)
RStrip(s) ==
    IF s # "" /\ IsSpace(Char(s, Len(s))) THEN RStrip(SubSeq(s, 1, Len(s) - 1)) ELSE s

\* s.strip()
Strip(s) == RStrip(LStrip(s))

RECURSIVE SplitOn(_, _)
\* s.split(sep): the pieces between the occurrences of sep, found left to right
SplitOn(s, sep) ==
    LET hits == {i \in 1..(Len(s) - Len(sep) + 1) : HasAt(s, i, sep)}
    IN  IF hits = {}
        THEN <<s>>
        ELSE LET i == CHOOSE h \in hits : \A g \in hits : h <= g
             IN  <<SubSeq(s, 1, i - 1)>> \o SplitOn(SubSeq(s, i + Len(sep), Len(s)), sep)

RECURSIVE NonSpaceRun(_)
\* the longest prefix of s without a blank
NonSpaceRun(s) ==
    IF s = "" \/ IsSpace(Head(s)) THEN "" ELSE Head(s) \o NonSpaceRun(Tail(s))

\* s.split()[0] if s.split() else ''
FirstWord(s) == NonSpaceRun(LStrip(s))

\* os.path.basename(p): what follows the last '/'
Basename(p) ==
    LET slashes == {i \in 1..Len(p) : Char(p, i) = "/"}
    IN  IF slashes = {}
        THEN p
        ELSE LET last == CHOOSE i \in slashes : \A j \in slashes : j <= i
             IN  SubSeq(p, last + 1, Len(p))

(***************************************************************************)
(* Python re patterns: a pattern is a sequence of elements, matched left   *)
(* to right with backtracking.                                             *)
(***************************************************************************)

\* literal text
Lit(text) == [k |-> "lit", s |-> text, alts |-> {}]
\* \s+
Ws == [k |-> "ws", s |-> "", alts |-> {}]
\* \b
WordB == [k |-> "b", s |-> "", alts |-> {}]
\* $
Eos == [k |-> "eos", s |-> "", alts |-> {}]
\* .*
DotStar == [k |-> "dotstar", s |-> "", alts |-> {}]
\* (a|b|c) over literal alternatives; x? is (x|)
Alt(texts) == [k |-> "alt", s |-> "", alts |-> texts]
\* \S+
NonWs == [k |-> "nonws", s |-> "", alts |-> {}]
\* [^/]+
NotSlash == [k |-> "notslash", s |-> "", alts |-> {}]

\* \b at the gap before s[pos]: exactly one side is a word character
AtWordBoundary(s, pos) ==
    LET before == pos > 1 /\ pos - 1 <= Len(s) /\ IsWord(Char(s, pos - 1))
        after == pos >= 1 /\ pos <= Len(s) /\ IsWord(Char(s, pos))
    IN  before # after

\* $ : the end of the text, or just before a final newline
AtEnd(s, pos) == pos = Len(s) + 1 \/ (pos = Len(s) /\ Char(s, pos) = "\n")

RECURSIVE MatchFrom(_, _, _, _)
\* whether the elements p[i..] match s starting at position pos
MatchFrom(p, i, s, pos) ==
    IF i > Len(p)
    THEN TRUE
    ELSE LET e == p[i]
         IN  CASE e.k = "lit" ->
                    HasAt(s, pos, e.s) /\ MatchFrom(p, i + 1, s, pos + Len(e.s))
               [] e.k = "ws" ->
                    \E n \in 1..(Len(s) - pos + 1) :
                        /\ \A j \in pos..(pos + n - 1) : IsSpace(Char(s, j))
                        /\ MatchFrom(p, i + 1, s, pos + n)
               [] e.k = "b" ->
                    AtWordBoundary(s, pos) /\ MatchFrom(p, i + 1, s, pos)
               [] e.k = "eos" ->
                    AtEnd(s, pos) /\ MatchFrom(p, i + 1, s, pos)
               [] e.k = "dotstar" ->
                    \E n \in 0..(Len(s) - pos + 1) :
                        /\ \A j \in pos..(pos + n - 1) : Char(s, j) # "\n"
                        /\ MatchFrom(p, i + 1, s, pos + n)
               [] e.k = "nonws" ->
                    \E n \in 1..(Len(s) - pos + 1) :
                        /\ \A j \in pos..(pos + n - 1) : ~IsSpace(Char(s, j))
                        /\ MatchFrom(p, i + 1, s, pos + n)
               [] e.k = "notslash" ->
                    \E n \in 1..(Len(s) - pos + 1) :
                        /\ \A j \in pos..(pos + n - 1) : Char(s, j) # "/"
                        /\ MatchFrom(p, i + 1, s, pos + n)
               [] e.k = "alt" ->
                    \E a \in e.alts :
                        HasAt(s, pos, a) /\ MatchFrom(p, i + 1, s, pos + Len(a))

\* re.search(p, s)
Search(p, s) == \E pos \in 1..(Len(s) + 1) : MatchFrom(p, 1, s, pos)

\* re.match(p, s), and re.search of a pattern that starts with ^
MatchStart(p, s) == MatchFrom(p, 1, s, 1)

(***************************************************************************)
(* Step records of a loaded trajectory.  A field of a step is a text, the  *)
(* JSON null, or absent from the record.                                   *)
(***************************************************************************)

Str(text) == [kind |-> "str", val |-> text]
Null == [kind |-> "null", val |-> ""]
Missing == [kind |-> "missing", val |-> ""]

\* step.get(key, default)
Get(field, default) == IF field.kind = "missing" THEN Str(default) ELSE field

\* value or ''
OrEmpty(field) == IF field.kind = "null" THEN "" ELSE field.val

(***************************************************************************)
(* locate_reproduction_code                                                *)
(***************************************************************************)

filename_keywords ==
    << "reproduce", "debug", "test_", "_test", "verify", "check", "demo", "example",
       "issue", "bug", "minimal", "poc", "script", "run_", "try_" >>

BugWords == {"bug", "issue", "problem", "fix"}

thought_patterns ==
    << <<Lit("reproduce the issue")>>,
       <<Lit("reproduce the bug")>>,
       <<Lit("reproduce the problem")>>,
       <<Lit("reproduce the error")>>,
       <<Lit("test"), DotStar, Lit("to reproduce")>>,
       <<Lit("script to reproduce")>>,
       <<Lit("verify the "), Alt(BugWords)>>,
       <<Lit("test the "), Alt(BugWords)>>,
       <<Lit("confirm the "), Alt(BugWords)>>,
       <<Lit("create a "), Alt({"test ", "reproduction ", ""}), Lit("script")>>,
       <<Lit("let"), Alt({"'", ""}), Lit("s create a script")>>,
       <<Lit("create"), DotStar, Lit("to test")>>,
       <<Lit("create"), DotStar, Lit("to verify")>>,
       <<Lit("demonstrate the issue")>>,
       <<Lit("minimal"), DotStar, Lit("example")>>,
       <<Lit("test case")>> >>

\* r'str_replace_editor create\s+(\S+)'
create_pattern == <<Lit("str_replace_editor create"), Ws, NonWs>>

\* match.group(1): \s+ takes every blank after the prefix, (\S+) the run after them
CreatedPath(action) ==
    NonSpaceRun(LStrip(SubSeq(action, Len("str_replace_editor create") + 1, Len(action))))

\* r'^/testbed/[^/]+\.py$'
testbed_root_pattern == <<Lit("/testbed/"), NotSlash, Lit(".py"), Eos>>

excluded_root_files == {"__init__.py", "setup.py", "conftest.py"}

\* the step's action at line 85: no "or ''", so a JSON null stays None
ReproAction(step) == Get(step.action, "")

\* line 90: "'str_replace_editor create' not in action" raises TypeError on None
ReproRaises(step) == ReproAction(step).kind = "null"

\* lines 106-112
FilenameSignal(filename_lower) ==
    \E i \in 1..Len(filename_keywords) : Contains(filename_lower, filename_keywords[i])

\* lines 115-119
ThoughtSignal(thought_lower) ==
    \E i \in 1..Len(thought_patterns) : Search(thought_patterns[i], thought_lower)

\* LocationSignal without the exclusion list of line 124
LocationSignal_NoExclusions(filepath, filename_lower) ==
    MatchStart(testbed_root_pattern, filepath)

\* lines 122-125
LocationSignal(filepath, filename_lower) ==
    /\ MatchStart(testbed_root_pattern, filepath)
    /\ filename_lower \notin excluded_root_files

\* the loop body of lines 85-128 for a step whose action is a text:
\* TRUE when step_idx is appended
IsReproduction(step) ==
    LET action == ReproAction(step).val
        thought == OrEmpty(Get(step.thought, ""))
        thought_lower == Lower(thought)
    IN  IF ~Contains(action, "str_replace_editor create")
        THEN FALSE
        ELSE IF ~MatchStart(create_pattern, action)
        THEN FALSE
        ELSE LET filepath == CreatedPath(action)
                 filename == Basename(filepath)
                 filename_lower == Lower(filename)
             IN  IF ~EndsWith(filename_lower, ".py")
                 THEN FALSE
                 ELSE LET by_name == FilenameSignal(filename_lower)
                          by_thought == IF ~by_name THEN ThoughtSignal(thought_lower) ELSE by_name
                          by_root ==
                              IF ~by_thought
                              THEN LocationSignal(filepath, filename_lower)
                              ELSE by_thought
                      IN  by_root

(***************************************************************************)
(* locate_search                                                           *)
(***************************************************************************)

swe_agent_search_commands == << "find_file", "search_file", "search_dir" >>

bash_search_patterns ==
    << <<WordB, Lit("find"), Ws>>,
       <<WordB, Lit("grep"), Ws>>,
       <<WordB, Lit("cat"), Ws>>,
       <<WordB, Lit("ls"), Ws>>,
       <<WordB, Lit("ls"), Eos>>,
       <<WordB, Lit("head"), Ws>>,
       <<WordB, Lit("tail"), Ws>>,
       <<WordB, Lit("less"), Ws>>,
       <<WordB, Lit("more"), Ws>>,
       <<WordB, Lit("wc"), Ws>>,
       <<WordB, Lit("awk"), Ws>>,
       <<WordB, Lit("sed"), Ws>>,
       <<WordB, Lit("rg"), Ws>>,
       <<WordB, Lit("ag"), Ws>>,
       <<WordB, Lit("git"), Ws, Lit("show"), Ws>>,
       <<WordB, Lit("git"), Ws, Lit("log"), Ws>>,
       <<WordB, Lit("git"), Ws, Lit("diff"), Ws>> >>

editor_view_pattern == <<Lit("str_replace_editor"), Ws, Lit("view"), Ws>>

code_modification_patterns ==
    << <<Lit("str_replace_editor"), Ws, Lit("str_replace"), Ws>>,
       <<Lit("str_replace_editor"), Ws, Lit("create"), Ws>>,
       <<Lit("str_replace_editor"), Ws, Lit("insert"), Ws>>,
       <<Lit("str_replace_editor"), Ws, Lit("undo_edit"), Ws>> >>

\* line 326
SearchAction(step) == OrEmpty(Get(step.action, ""))

\* IsModification without the create pattern of line 320
IsModification_CreateOmitted(action) ==
    \E i \in 1..Len(code_modification_patterns) :
        /\ i # 2
        /\ Search(code_modification_patterns[i], action)

\* lines 330-334
IsModification(action) ==
    \E i \in 1..Len(code_modification_patterns) :
        Search(code_modification_patterns[i], action)

\* lines 342-345
IsSweAgentSearch(action) ==
    \E i \in 1..Len(swe_agent_search_commands) :
        \/ StartsWith(action, swe_agent_search_commands[i])
        \/ Contains(action, " " \o swe_agent_search_commands[i])

\* lines 347-350
IsEditorView(action) == Search(editor_view_pattern, action)

\* IsBashSearch with the \b of every pattern dropped: a plain substring search
IsBashSearch_NoWordBoundary(action) ==
    \E i \in 1..Len(bash_search_patterns) : Search(Tail(bash_search_patterns[i]), action)

\* lines 352-357
IsBashSearch(action) ==
    \E i \in 1..Len(bash_search_patterns) : Search(bash_search_patterns[i], action)

\* IsSearchStep with the precedence lost: a search signal is accepted before the
\* modification patterns are consulted
IsSearchStep_SignalsFirst(step) ==
    LET action == SearchAction(step)
    IN  IF IsSweAgentSearch(action) \/ IsEditorView(action) \/ IsBashSearch(action)
        THEN TRUE
        ELSE FALSE

\* the loop body of lines 326-360: TRUE when step_idx is appended
IsSearchStep(step) ==
    LET action == SearchAction(step)
    IN  IF IsModification(action)
        THEN FALSE
        ELSE LET by_command == IsSweAgentSearch(action)
                 by_view == IF ~by_command THEN IsEditorView(action) ELSE by_command
                 by_bash == IF ~by_view THEN IsBashSearch(action) ELSE by_view
             IN  by_bash

(***************************************************************************)
(* locate_tool_use                                                         *)
(***************************************************************************)

editor_commands == << "view", "create", "str_replace", "insert", "undo_edit" >>

shell_commands ==
    << "python", "python3", "pip", "pip3",
       "cd", "ls", "cat", "head", "tail", "less", "more",
       "grep", "find", "sed", "awk", "wc",
       "echo", "touch", "mkdir", "rm", "mv", "cp",
       "git", "pytest", "tox", "make",
       "bash", "sh", "source", "export" >>

\* the least index of a non-empty set of list positions: the loop's first hit
FirstOf(hits) == CHOOSE i \in hits : \A j \in hits : i <= j

\* line 448
ToolAction(step) == OrEmpty(Get(step.action, ""))

\* lines 456-461: the names counted for an editor action (at most one)
EditorNames(action) ==
    LET hits == {i \in 1..Len(editor_commands) :
                    Search(<<Lit("str_replace_editor"), Ws, Lit(editor_commands[i]), WordB>>,
                           action)}
    IN  IF hits = {}
        THEN << >>
        ELSE << "str_replace_editor_" \o editor_commands[FirstOf(hits)] >>

\* rf'^{shell_cmd}\b|^\/{shell_cmd}\b'
ShellCommandMatches(shell_cmd, text) ==
    \/ MatchStart(<<Lit(shell_cmd), WordB>>, text)
    \/ MatchStart(<<Lit("/" \o shell_cmd), WordB>>, text)

\* lines 476-489: the names counted for one conjunct of a compound command
ResolvePart(part) ==
    LET hits == {i \in 1..Len(shell_commands) : ShellCommandMatches(shell_commands[i], part)}
    IN  IF hits # {}
        THEN << shell_commands[FirstOf(hits)] >>
        ELSE IF part = ""
        THEN << >>
        ELSE LET first_word == FirstWord(part)
             IN  IF first_word # "" /\ ~StartsWith(first_word, "-")
                 THEN << Basename(first_word) >>
                 ELSE << >>

\* ResolveSingle keeping the path of the first word (no os.path.basename)
ResolveSingle_KeepPath(action_stripped) ==
    LET hits == {i \in 1..Len(shell_commands) :
                    ShellCommandMatches(shell_commands[i], action_stripped)}
    IN  IF hits # {}
        THEN << shell_commands[FirstOf(hits)] >>
        ELSE IF FirstWord(action_stripped) # "" /\ ~StartsWith(FirstWord(action_stripped), "-")
        THEN << FirstWord(action_stripped) >>
        ELSE << >>

\* ResolveSingle without the first-word fallback of lines 504-510
ResolveSingle_VocabularyOnly(action_stripped) ==
    LET hits == {i \in 1..Len(shell_commands) :
                    ShellCommandMatches(shell_commands[i], action_stripped)}
    IN  IF hits # {} THEN << shell_commands[FirstOf(hits)] >> ELSE << >>

\* lines 496-510: the names counted for a single or piped command
ResolveSingle(action_stripped) ==
    LET hits == {i \in 1..Len(shell_commands) :
                    ShellCommandMatches(shell_commands[i], action_stripped)}
    IN  IF hits # {}
        THEN << shell_commands[FirstOf(hits)] >>
        ELSE IF action_stripped = ""
        THEN << >>
        ELSE LET first_word == FirstWord(action_stripped)
             IN  IF first_word # "" /\ ~StartsWith(first_word, "-")
                 THEN << Basename(first_word) >>
                 ELSE << >>

RECURSIVE ResolveParts(_)
\* lines 474-489: the loop over the conjuncts, in order
ResolveParts(parts) ==
    IF parts = << >>
    THEN << >>
    ELSE ResolvePart(Strip(Head(parts))) \o ResolveParts(Tail(parts))

\* ShellNames counting only the first conjunct of a compound command
ShellNames_FirstConjunctOnly(action) ==
    LET action_stripped == Strip(action)
    IN  IF Contains(action_stripped, " && ")
        THEN ResolvePart(Strip(SplitOn(action_stripped, " && ")[1]))
        ELSE IF Contains(action_stripped, " | ")
        THEN ResolveSingle(Strip(SplitOn(action_stripped, " | ")[1]))
        ELSE ResolveSingle(action_stripped)

\* lines 468-510: the names counted for a shell action, in the order counted
ShellNames(action) ==
    LET action_stripped == Strip(action)
    IN  IF Contains(action_stripped, " && ")
        THEN ResolveParts(SplitOn(action_stripped, " && "))
        ELSE IF Contains(action_stripped, " | ")
        THEN ResolveSingle(Strip(SplitOn(action_stripped, " | ")[1]))
        ELSE ResolveSingle(action_stripped)

\* lines 450-510: the names one step adds a count to, in the order counted
ToolNames(action) ==
    IF action = ""
    THEN << >>
    ELSE IF StartsWith(action, "str_replace_editor")
    THEN EditorNames(action)
    ELSE ShellNames(action)

\* CountOne storing 1 instead of incrementing
CountOne_NoIncrement(counts, name) ==
    [key \in DOMAIN counts \cup {name} |-> IF key = name THEN 1 ELSE counts[key]]

\* tool_counts[name] = tool_counts.get(name, 0) + 1
CountOne(counts, name) ==
    [key \in DOMAIN counts \cup {name} |->
        IF key = name
        THEN (IF name \in DOMAIN counts THEN counts[name] ELSE 0) + 1
        ELSE counts[key]]

RECURSIVE CountAll(_, _)
\* the step's updates of tool_counts, one per name, in order
CountAll(counts, names) ==
    IF names = << >>
    THEN counts
    ELSE CountAll(CountOne(counts, Head(names)), Tail(names))

(***************************************************************************)
(* The program: one call of a classifier on one instance id.               *)
(***************************************************************************)

VARIABLES
    disk,                \* what the file system holds for the instance id
    file,                \* the "trajectory" list of the .traj file, when it parses
    fn,                  \* the classifier called
    pc,                  \* where the call is
    trajectory,          \* data.get('trajectory', [])
    step_idx,            \* the loop's position, 0-based
    reproduction_steps,  \* locate_reproduction_code's list
    search_steps,        \* locate_search's list
    tool_counts,         \* locate_tool_use's dict
    result               \* what the call returned

vars ==
    << disk, file, fn, pc, trajectory, step_idx,
       reproduction_steps, search_steps, tool_counts, result >>

Functions == {"locate_reproduction_code", "locate_search", "locate_tool_use"}

Step(action, thought) == [action |-> action, thought |-> thought]

\* The steps a trajectory file is built from.
StepInputs ==
    { Step(Str("str_replace_editor create /testbed/tests/Test_Bug.py"), Str("")),
      Step(Str("str_replace_editor create /testbed/reproduce_bug.py"),
           Str("I will reproduce the bug")),
      Step(Str("str_replace_editor create /testbed/src/Utils.py"),
           Str("Now let's create a Script to Reproduce the issue")),
      Step(Str("str_replace_editor create /testbed/src/Utils.py"), Missing),
      Step(Str("str_replace_editor create /testbed/foo.py"), Null),
      Step(Str("str_replace_editor create /testbed/setup.py"), Str("")),
      Step(Str("str_replace_editor create /testbed/reproduce.txt"),
           Str("I will reproduce the bug")),
      Step(Str("str_replace_editor create /testbed/A.PY"), Str("")),
      Step(Str("str_replace_editor create /testbed/test_cat.py --file_text 'cat x'"),
           Str("")),
      Step(Str("str_replace_editor view /testbed/a.py"), Str("")),
      Step(Str("str_replace_editor str_replace /a.py 'cat x'"), Str("")),
      Step(Str("str_replace_editor open /a.py"), Str("")),
      Step(Str("grep -rn TODO ."), Str("")),
      Step(Str("cd /testbed && python script.py"), Str("")),
      Step(Str("cd /testbed && git diff"), Str("")),
      Step(Str("find_file foo.py"), Str("")),
      Step(Str("./run.sh"), Str("")),
      Step(Str("-v"), Str("")),
      Step(Null, Str("")),
      Step(Missing, Str("")),
      Step(Str(""), Str("")),
      Step(Str("ls"), Str("")),
      Step(Str("   "), Str("")),
      Step(Str("python3 -m pytest | tail -5"), Str("")),
      Step(Str("xgrep foo"), Str("")),
      Step(Str("ls &&  && -x"), Str("")),
      Step(Str("cd /testbed && cd src"), Str("")),
      Step(Str("/tmp/-v"), Str("")),
      Step(Str("/testbed/"), Str("")) }

Trajectories == UNION { [1..n -> StepInputs] : n \in 0..MaxSteps }

NoResult == [kind |-> "none", value |-> << >>]

\* a returned List[int] (the two index classifiers) or dict (the counter)
ReturnedList(value) == [kind |-> "list", value |-> value]
ReturnedDict(value) == [kind |-> "dict", value |-> value]

\* "return []" of lines 32, 40, 272, 280 and "return {}" of lines 421, 429
EmptyResult(f) == IF f = "locate_tool_use" THEN ReturnedDict(<< >>) ELSE ReturnedList(<< >>)

Init ==
    /\ fn \in Functions
    /\ disk \in {"absent", "unreadable", "ok"}
    /\ file \in (IF disk = "ok" THEN Trajectories ELSE {<< >>})
    /\ pc = "find"
    /\ trajectory = << >>
    /\ step_idx = 0
    /\ reproduction_steps = << >>
    /\ search_steps = << >>
    /\ tool_counts = << >>
    /\ result = NoResult

\* find_trajectory_file and the "if not traj_file: return" that follows it
FindTrajectoryFile ==
    /\ pc = "find"
    /\ IF disk = "absent"
       THEN pc' = "returned" /\ result' = EmptyResult(fn)
       ELSE pc' = "load" /\ UNCHANGED result
    /\ UNCHANGED << disk, file, fn, trajectory, step_idx,
                    reproduction_steps, search_steps, tool_counts >>

\* LoadTrajectory without the try/except: the load error reaches the caller
LoadTrajectory_Unguarded ==
    /\ pc = "load"
    /\ IF disk = "unreadable"
       THEN /\ pc' = "raised"
            /\ result' = [kind |-> "JSONDecodeError", value |-> << >>]
            /\ UNCHANGED trajectory
       ELSE pc' = "loop" /\ trajectory' = file /\ UNCHANGED result
    /\ UNCHANGED << disk, file, fn, step_idx,
                    reproduction_steps, search_steps, tool_counts >>

\* open and json.load in try/except, then data.get('trajectory', [])
LoadTrajectory ==
    /\ pc = "load"
    /\ IF disk = "unreadable"
       THEN pc' = "returned" /\ result' = EmptyResult(fn) /\ UNCHANGED trajectory
       ELSE pc' = "loop" /\ trajectory' = file /\ UNCHANGED result
    /\ UNCHANGED << disk, file, fn, step_idx,
                    reproduction_steps, search_steps, tool_counts >>

\* the step the loop is at
CurrentStep == trajectory[step_idx + 1]

\* one iteration of the loop of locate_reproduction_code
ReproductionStep ==
    /\ fn = "locate_reproduction_code"
    /\ pc = "loop"
    /\ step_idx < Len(trajectory)
    /\ IF ReproRaises(CurrentStep)
       THEN /\ pc' = "raised"
            /\ result' = [kind |-> "TypeError", value |-> << >>]
            /\ UNCHANGED << step_idx, reproduction_steps >>
       ELSE /\ reproduction_steps' =
                IF IsReproduction(CurrentStep)
                THEN Append(reproduction_steps, step_idx)
                ELSE reproduction_steps
            /\ step_idx' = step_idx + 1
            /\ UNCHANGED << pc, result >>
    /\ UNCHANGED << disk, file, fn, trajectory, search_steps, tool_counts >>

\* SearchStep numbering the steps from 1, as enumerate(trajectory, 1) would
SearchStep_OneBased ==
    /\ fn = "locate_search"
    /\ pc = "loop"
    /\ step_idx < Len(trajectory)
    /\ search_steps' =
        IF IsSearchStep(CurrentStep) THEN Append(search_steps, step_idx + 1) ELSE search_steps
    /\ step_idx' = step_idx + 1
    /\ UNCHANGED << disk, file, fn, pc, trajectory, reproduction_steps, tool_counts, result >>

\* one iteration of the loop of locate_search
SearchStep ==
    /\ fn = "locate_search"
    /\ pc = "loop"
    /\ step_idx < Len(trajectory)
    /\ search_steps' =
        IF IsSearchStep(CurrentStep) THEN Append(search_steps, step_idx) ELSE search_steps
    /\ step_idx' = step_idx + 1
    /\ UNCHANGED << disk, file, fn, pc, trajectory, reproduction_steps, tool_counts, result >>

\* one iteration of the loop of locate_tool_use
ToolStep ==
    /\ fn = "locate_tool_use"
    /\ pc = "loop"
    /\ step_idx < Len(trajectory)
    /\ tool_counts' = CountAll(tool_counts, ToolNames(ToolAction(CurrentStep)))
    /\ step_idx' = step_idx + 1
    /\ UNCHANGED << disk, file, fn, pc, trajectory, reproduction_steps, search_steps, result >>

\* the return after the loop
Return ==
    /\ pc = "loop"
    /\ step_idx = Len(trajectory)
    /\ pc' = "returned"
    /\ result' = CASE fn = "locate_reproduction_code" -> ReturnedList(reproduction_steps)
                    [] fn = "locate_search" -> ReturnedList(search_steps)
                    [] fn = "locate_tool_use" -> ReturnedDict(tool_counts)
    /\ UNCHANGED << disk, file, fn, trajectory, step_idx,
                    reproduction_steps, search_steps, tool_counts >>

Next ==
    \/ FindTrajectoryFile
    \/ LoadTrajectory
    \/ ReproductionStep
    \/ SearchStep
    \/ ToolStep
    \/ Return

Spec == Init /\ [][Next]_vars

(***************************************************************************)
(* Properties                                                              *)
(***************************************************************************)

\* the text of a step's field as the specification reads it: absent is empty
TextOf(field) == IF field.kind = "str" THEN field.val ELSE ""

\* the steps the loop has passed, as 0-based indices
Processed == 0..(step_idx - 1)

\* the members of an index list
Members(list) == {list[k] : k \in 1..Len(list)}

IndicesValid(list) ==
    /\ \A k \in 1..Len(list) : list[k] \in 0..(Len(trajectory) - 1)
    /\ \A k \in 1..(Len(list) - 1) : list[k] < list[k + 1]

\* C1: at every point of a call, and in what the call returns, the index lists of
\* locate_reproduction_code and locate_search hold only positions of the
\* trajectory, 0 <= i < len(trajectory), in strictly increasing order.
C1_IndicesInRangeAndIncreasing ==
    /\ IndicesValid(reproduction_steps)
    /\ IndicesValid(search_steps)
    /\ result.kind = "list" => IndicesValid(result.value)

\* a call of locate_search that returned both positions of a two-step trajectory
C1_Witness ==
    /\ fn = "locate_search"
    /\ pc = "returned"
    /\ Len(trajectory) = 2
    /\ result = ReturnedList(<< 0, 1 >>)

ModificationOperations == {"str_replace", "create", "insert", "undo_edit"}

\* the action uses a content-modification syntax of the editing sub-tool
MatchesModificationSyntax(action) ==
    \E op \in ModificationOperations :
        Search(<<Lit("str_replace_editor"), Ws, Lit(op), Ws>>, action)

\* the action carries a search signal of tier 2 or tier 3
HasSearchSignal(action) ==
    IsSweAgentSearch(action) \/ IsEditorView(action) \/ IsBashSearch(action)

\* MatchesModificationSyntax of the action of each step a trajectory is built from
ModificationSyntaxOf ==
    [step \in StepInputs |-> MatchesModificationSyntax(TextOf(step.action))]

\* C2: no index in locate_search's list is that of a step whose action matches a
\* content-modification syntax, whatever search signal the action also carries.
C2_ModificationNeverSearch ==
    fn = "locate_search" =>
        \A i \in Members(search_steps) : ~ModificationSyntaxOf[trajectory[i + 1]]

\* locate_search returned a non-empty list that leaves out a step whose action
\* is a modification and also carries a search signal
C2_Witness ==
    /\ fn = "locate_search"
    /\ pc = "returned"
    /\ result.value # << >>
    /\ \E i \in 0..(Len(trajectory) - 1) :
        /\ MatchesModificationSyntax(TextOf(trajectory[i + 1].action))
        /\ HasSearchSignal(TextOf(trajectory[i + 1].action))
        /\ i \notin Members(result.value)

RECURSIVE SumOver(_, _)
SumOver(counts, keys) ==
    IF keys = {}
    THEN 0
    ELSE LET key == CHOOSE x \in keys : TRUE
         IN  counts[key] + SumOver(counts, keys \ {key})

\* the sum of all counts of a mapping
Total(counts) == SumOver(counts, DOMAIN counts)

\* a loop iteration of locate_tool_use, as a step of the behaviour
ToolStepTaken == fn = "locate_tool_use" /\ pc = "loop" /\ step_idx' = step_idx + 1

\* what the iteration added to the sum of all counts
Grown == Total(tool_counts') - Total(tool_counts)

\* the pieces of a text between its ' && ' separators
Conjuncts(text) == SplitOn(text, " && ")

\* the first whitespace-delimited token begins with '-'
FlagLed(text) == StartsWith(FirstWord(text), "-")

\* there is a first whitespace-delimited token and it is no flag
Countable(text) == FirstWord(text) # "" /\ ~FlagLed(text)

\* the action names one of the five operations of the editor
NamesEditorOperation(action) ==
    \E op \in {"view", "create", "str_replace", "insert", "undo_edit"} :
        Search(<<Lit("str_replace_editor"), Ws, Lit(op), WordB>>, action)

\* what the attribution rules read off the action of each step a trajectory is
\* built from
ActionFactsOf ==
    [step \in StepInputs |->
        LET action == TextOf(step.action)
            conjuncts == Conjuncts(Strip(action))
        IN  [ empty |-> action = "",
              editor |-> StartsWith(action, "str_replace_editor"),
              operation |-> NamesEditorOperation(action),
              compound |-> Contains(action, " && "),
              flagLed |-> FlagLed(action),
              someFlagLed |-> \E k \in 1..Len(Conjuncts(action)) :
                                 FlagLed(Conjuncts(action)[k]),
              someCountable |-> \E k \in 1..Len(conjuncts) : Countable(conjuncts[k]) ]]

\* C3 as stated: every step with a non-empty action adds at least 1 to the sum of
\* counts unless the action or one of its conjuncts is led by a flag, and exactly
\* 1 when the action has no ' && ' and is not led by a flag.
C3_Original ==
    [][ToolStepTaken =>
        LET facts == ActionFactsOf[CurrentStep]
        IN  ~facts.empty =>
                /\ Grown >= 1 \/ facts.someFlagLed
                /\ (~facts.compound /\ ~facts.flagLed) => Grown = 1
       ]_vars

\* C3 (amended): a step whose non-empty action starts with 'str_replace_editor'
\* adds exactly 1 to the sum of counts when it names one of the five editor
\* operations and nothing otherwise.  Any other non-empty action adds at least 1
\* exactly when its stripped text, or one of its ' && ' conjuncts, has a first
\* whitespace-delimited token that does not begin with '-' (a blank action or
\* conjunct adds nothing, like a flag-led one), and at most 1 when it has no
\* ' && ' separator.
C3_AttributionPerStep ==
    [][ToolStepTaken =>
        LET facts == ActionFactsOf[CurrentStep]
        IN  ~facts.empty =>
                IF facts.editor
                THEN Grown = (IF facts.operation THEN 1 ELSE 0)
                ELSE /\ Grown >= 1 <=> facts.someCountable
                     /\ ~facts.compound => Grown <= 1
       ]_vars

\* an editor action naming no known operation was passed with nothing counted,
\* then a two-conjunct command counted twice
C3_Witness ==
    /\ fn = "locate_tool_use"
    /\ step_idx = 2
    /\ trajectory[1].action = Str("str_replace_editor open /a.py")
    /\ trajectory[2].action = Str("cd /testbed && python script.py")
    /\ Total(tool_counts) = 2

\* a step with each absent field replaced by the empty text
AsText(step) == Step(Str(TextOf(step.action)), Str(TextOf(step.thought)))

\* how many times a name occurs in a sequence of names
Occurrences(names, name) == Cardinality({k \in 1..Len(names) : names[k] = name})

RECURSIVE SumOfOccurrences(_, _, _)
\* the occurrences of a name in namesOf[i], summed over the indices i
SumOfOccurrences(namesOf, indices, name) ==
    IF indices = {}
    THEN 0
    ELSE LET i == CHOOSE x \in indices : TRUE
         IN  Occurrences(namesOf[i], name) + SumOfOccurrences(namesOf, indices \ {i}, name)

\* the mapping that counts, per name, the occurrences in namesOf[i] over all i
CountsOf(namesOf) ==
    LET seen == UNION { {namesOf[i][k] : k \in 1..Len(namesOf[i])} : i \in DOMAIN namesOf }
    IN  [name \in seen |-> SumOfOccurrences(namesOf, DOMAIN namesOf, name)]

\* C4: in each classifier a step whose action or thought is missing or null is
\* processed as if the field were the empty string: no exception is raised and
\* the step contributes what the empty-text step contributes.
C4_AbsentFieldIsEmptyText ==
    /\ pc # "raised"
    /\ fn = "locate_reproduction_code" =>
        \A i \in Processed :
            i \in Members(reproduction_steps) <=> IsReproduction(AsText(trajectory[i + 1]))
    /\ fn = "locate_search" =>
        \A i \in Processed :
            i \in Members(search_steps) <=> IsSearchStep(AsText(trajectory[i + 1]))
    /\ fn = "locate_tool_use" =>
        tool_counts =
            CountsOf([i \in Processed |-> ToolNames(TextOf(trajectory[i + 1].action))])

\* the path a file-creation action creates: the token after 'str_replace_editor create'
CreatedFile(action) ==
    FirstWord(SubSeq(action, Len("str_replace_editor create") + 1, Len(action)))

\* the action is a file-creation action: the create syntax, blank, then a path
IsFileCreation(action) ==
    /\ StartsWith(action, "str_replace_editor create")
    /\ Len(action) > Len("str_replace_editor create")
    /\ IsSpace(Char(action, Len("str_replace_editor create") + 1))
    /\ CreatedFile(action) # ""

\* signal (1): the lower-cased filename contains a keyword of the vocabulary
NameHasKeyword(path) ==
    \E k \in 1..Len(filename_keywords) :
        Contains(Lower(Basename(path)), filename_keywords[k])

\* signal (2): the lower-cased thought matches a pattern of the vocabulary
ThoughtHasIntent(thought) ==
    \E k \in 1..Len(thought_patterns) : Search(thought_patterns[k], Lower(thought))

\* signal (3): the path is /testbed/<name>.py, one component with a non-empty
\* name, and the lower-cased filename is none of the three excluded ones
DirectlyUnderRoot(path) ==
    /\ StartsWith(path, "/testbed/")
    /\ LET component == SubSeq(path, Len("/testbed/") + 1, Len(path))
       IN  /\ ~Contains(component, "/")
           /\ EndsWith(component, ".py")
           /\ Len(component) > Len(".py")
    /\ Lower(Basename(path)) \notin {"__init__.py", "setup.py", "conftest.py"}

\* the condition C5 gives for a step to be reported
IsReproductionByRule(step) ==
    LET action == TextOf(step.action)
        path == CreatedFile(action)
    IN  /\ IsFileCreation(action)
        /\ EndsWith(Lower(Basename(path)), ".py")
        /\ \/ NameHasKeyword(path)
           \/ ThoughtHasIntent(TextOf(step.thought))
           \/ DirectlyUnderRoot(path)

\* IsReproductionByRule of each step a trajectory is built from
ReproductionByRuleOf == [step \in StepInputs |-> IsReproductionByRule(step)]

CountIn(counts, name) == IF name \in DOMAIN counts THEN counts[name] ELSE 0

\* what the iteration added to the count of a name
Delta(name) == CountIn(tool_counts', name) - CountIn(tool_counts, name)

\* text begins with the name, and the name ends there (end of text or a
\* non-word character follows)
PrefixedBy(text, name) ==
    /\ StartsWith(text, name)
    /\ Len(text) = Len(name) \/ ~IsWord(Char(text, Len(name) + 1))

\* the names of the known-command vocabulary that start the text, bare or
\* after one leading '/'
KnownCommands(text) ==
    {shell_commands[k] : k \in {j \in 1..Len(shell_commands) :
        PrefixedBy(text, shell_commands[j]) \/ PrefixedBy(text, "/" \o shell_commands[j])}}

\* the name a command text resolves to, as a set: the vocabulary name that
\* starts it, else its first token without its path, else (blank text or a
\* flag first) nothing
ResolvedNames(text) ==
    IF KnownCommands(text) # {}
    THEN KnownCommands(text)
    ELSE IF Countable(text)
    THEN {Basename(FirstWord(text))}
    ELSE {}

\* the names each ' && ' conjunct of the action resolves to, for each step a
\* trajectory is built from
ConjunctNamesOf ==
    [step \in StepInputs |->
        LET conjuncts == Conjuncts(TextOf(step.action))
        IN  [k \in 1..Len(conjuncts) |-> ResolvedNames(Strip(conjuncts[k]))]]

\* the action is a non-editor action with ' && ' whose conjuncts each have a
\* first token that is no flag, for each step a trajectory is built from
CompoundOfCommandsOf ==
    [step \in StepInputs |->
        LET action == TextOf(step.action)
            conjuncts == Conjuncts(action)
        IN  /\ ~StartsWith(action, "str_replace_editor")
            /\ Contains(action, " && ")
            /\ \A k \in 1..Len(conjuncts) : Countable(conjuncts[k])]

ShellSearchNames ==
    {"find", "grep", "cat", "ls", "head", "tail", "less", "more", "wc", "awk", "sed",
     "rg", "ag"}

\* the git sub-commands of the vocabulary (git show, git log, git diff)
GitViewNames == {"show", "log", "diff"}

\* the name stands in the text as a distinct token: it starts and ends at a
\* word boundary
HasToken(text, name) ==
    \E pos \in 1..Len(text) :
        /\ HasAt(text, pos, name)
        /\ AtWordBoundary(text, pos)
        /\ AtWordBoundary(text, pos + Len(name))

\* 'git <sub>' stands in the text as distinct tokens
HasGitToken(text, sub) ==
    Search(<<WordB, Lit("git"), Ws, Lit(sub), WordB>>, text)

\* the action invokes find_file, search_file or search_dir
InvokesLookup(action) ==
    \E name \in {"find_file", "search_file", "search_dir"} :
        StartsWith(action, name) \/ Contains(action, " " \o name)

\* the action invokes the editor's view operation
InvokesView(action) == Search(<<Lit("str_replace_editor"), Ws, Lit("view"), Ws>>, action)

\* how often a step index stands in locate_search's list
TimesListed(i) == Cardinality({k \in 1..Len(search_steps) : search_steps[k] = i})

\* the condition C7 states for a step that is no modification to be listed
IsSearchByToken(action) ==
    \/ InvokesLookup(action)
    \/ InvokesView(action)
    \/ \E name \in ShellSearchNames : HasToken(action, name)
    \/ \E sub \in GitViewNames : HasGitToken(action, sub)

\* IsSearchByToken of the action of each step a trajectory is built from
SearchByTokenOf == [step \in StepInputs |-> IsSearchByToken(TextOf(step.action))]

\* C7 as stated: a step that is no modification is listed (once) if and only if
\* its action invokes a lookup operation or the editor's view, or contains a
\* shell search command name as a distinct token.
C7_Original ==
    fn = "locate_search" =>
        \A i \in Processed :
            ~ModificationSyntaxOf[trajectory[i + 1]] =>
                TimesListed(i) = (IF SearchByTokenOf[trajectory[i + 1]] THEN 1 ELSE 0)

\* the name starts at a word boundary and whitespace follows it
HasTokenThenBlank(text, name) == Search(<<WordB, Lit(name), Ws>>, text)

\* 'git <sub>' starts at a word boundary and whitespace follows the sub-command
HasGitTokenThenBlank(text, sub) ==
    Search(<<WordB, Lit("git"), Ws, Lit(sub), Ws>>, text)

\* 'ls' starts at a word boundary and ends the text
EndsWithLs(text) == Search(<<WordB, Lit("ls"), Eos>>, text)

\* the condition the amended C7 states for a step that is no modification
IsSearchByTokenThenBlank(action) ==
    \/ InvokesLookup(action)
    \/ InvokesView(action)
    \/ \E name \in ShellSearchNames : HasTokenThenBlank(action, name)
    \/ \E sub \in GitViewNames : HasGitTokenThenBlank(action, sub)
    \/ EndsWithLs(action)

\* IsSearchByTokenThenBlank of the action of each step a trajectory is built from
SearchByTokenThenBlankOf ==
    [step \in StepInputs |-> IsSearchByTokenThenBlank(TextOf(step.action))]

\* C7 (amended): a step that is no modification is listed exactly once when its
\* action invokes a lookup operation or the editor's view, or contains a shell
\* search command name that starts at a word boundary and is followed by
\* whitespace (for ls also: that ends the action), and is not listed otherwise.
\* A command name that ends the action, as in 'git diff', does not count.
C7_SearchIffSignal ==
    fn = "locate_search" =>
        \A i \in Processed :
            ~ModificationSyntaxOf[trajectory[i + 1]] =>
                TimesListed(i) =
                    (IF SearchByTokenThenBlankOf[trajectory[i + 1]] THEN 1 ELSE 0)

\* 'cd /testbed && git diff' was passed over and a piped command with
\* 'tail -5' was listed
C7_Witness ==
    /\ fn = "locate_search"
    /\ pc = "returned"
    /\ Len(trajectory) = 2
    /\ trajectory[1].action = Str("cd /testbed && git diff")
    /\ trajectory[2].action = Str("python3 -m pytest | tail -5")
    /\ result = ReturnedList(<< 1 >>)

\* the names attributed to each step a trajectory is built from
AttributionsOf == [step \in StepInputs |-> ToolNames(ToolAction(step))]

\* the names each processed step was attributed, by step index
AttributionsSoFar == [i \in Processed |-> AttributionsOf[trajectory[i + 1]]]

\* C8: after any prefix of the trajectory, tool_counts holds under each key the
\* number of attributions made to that name so far, every value is at least 1,
\* and it has no key for a name never attributed.
C8_CountsAreAttributions ==
    fn = "locate_tool_use" =>
        /\ tool_counts = CountsOf(AttributionsSoFar)
        /\ \A name \in DOMAIN tool_counts : tool_counts[name] >= 1

\* the same two-conjunct action processed twice doubled both counts
C8_Witness ==
    /\ fn = "locate_tool_use"
    /\ step_idx = 2
    /\ trajectory[1].action = Str("cd /testbed && python script.py")
    /\ trajectory[2] = trajectory[1]
    /\ tool_counts = ("cd" :> 2) @@ ("python" :> 2)

\* the commands of a shell action that are resolved: its ' && ' conjuncts, or
\* without ' && ' its first pipe stage
ResolvedUnits(action) ==
    IF Contains(Strip(action), " && ")
    THEN Conjuncts(Strip(action))
    ELSE << SplitOn(Strip(action), " | ")[1] >>

\* the names each resolved command of the action resolves to, for each step a
\* trajectory is built from
UnitNamesOf ==
    [step \in StepInputs |->
        LET units == ResolvedUnits(TextOf(step.action))
        IN  [k \in 1..Len(units) |-> ResolvedNames(Strip(units[k]))]]

\* C9: for a shell action, each resolved command adds one to the vocabulary name
\* that starts it; when no vocabulary name starts it, one to its first token with
\* the leading path stripped; and nothing when that first token begins with '-'.
\* No other count changes.
C9_VocabularyThenFirstWord ==
    [][ToolStepTaken =>
        LET facts == ActionFactsOf[CurrentStep]
            names == UnitNamesOf[CurrentStep]
        IN  (~facts.empty /\ ~facts.editor) =>
                \A name \in DOMAIN tool_counts' \cup UNION {names[k] : k \in 1..Len(names)} :
                    Delta(name) = Cardinality({k \in 1..Len(names) : name \in names[k]})
       ]_vars

\* './run.sh' was counted as run.sh and '-v' as nothing
C9_Witness ==
    /\ fn = "locate_tool_use"
    /\ step_idx = 2
    /\ trajectory[1].action = Str("./run.sh")
    /\ trajectory[2].action = Str("-v")
    /\ tool_counts = ("run.sh" :> 1)

\* C10: when no trajectory file is found, or loading it fails, the call returns
\* the classifier's empty result ([] or {}) and raises nothing.
C10_AbsentYieldsEmpty ==
    (disk \in {"absent", "unreadable"} /\ pc \notin {"find", "load"}) =>
        /\ pc = "returned"
        /\ result = EmptyResult(fn)

\* locate_tool_use returned {} for a trajectory file that failed to load
C10_Witness ==
    /\ disk = "unreadable"
    /\ fn = "locate_tool_use"
    /\ pc = "returned"
    /\ result = ReturnedDict(<< >>)

\* what each classifier decides for each step a trajectory is built from: whether
\* locate_reproduction_code lists it, whether locate_search lists it, and whether
\* locate_search passes it over as a modification
VerdictsOf ==
    [step \in StepInputs |->
        [ reproduction |-> ~ReproRaises(step) /\ IsReproduction(step),
          search |-> IsSearchStep(step),
          modification |-> IsModification(SearchAction(step)),
          signal |-> HasSearchSignal(SearchAction(step)) ]]

\* C11: for one trajectory the two index lists are disjoint.  Every step that
\* locate_reproduction_code lists has an action that locate_search passes over as
\* a modification, so locate_search does not list it; and no step that
\* locate_search lists is one that locate_reproduction_code lists.
C11_ListsDisjoint ==
    /\ fn = "locate_reproduction_code" =>
            \A i \in Members(reproduction_steps) :
                /\ VerdictsOf[trajectory[i + 1]].modification
                /\ ~VerdictsOf[trajectory[i + 1]].search
    /\ fn = "locate_search" =>
            \A i \in Members(search_steps) :
                ~VerdictsOf[trajectory[i + 1]].reproduction

\* locate_reproduction_code returned a list holding a step whose action also
\* carries a search signal, next to a step locate_search lists
C11_Witness ==
    /\ fn = "locate_reproduction_code"
    /\ pc = "returned"
    /\ Len(trajectory) = 2
    /\ result = ReturnedList(<< 0 >>)
    /\ VerdictsOf[trajectory[1]].signal
    /\ VerdictsOf[trajectory[2]].search

\* C12: every key of locate_tool_use's mapping, while it is built and as returned,
\* is a non-empty text that does not begin with '-'.
C12_KeysAreNames ==
    fn = "locate_tool_use" =>
        \A name \in DOMAIN tool_counts \cup DOMAIN result.value :
            /\ name # ""
            /\ ~StartsWith(name, "-")

====
